---- MODULE Spec2Model ----
(***************************************************************************)
(* brachyura: a TLS terminating reverse proxy.                             *)
(*                                                                         *)
(* The model follows src/src/lib.rs (proxy_handler, get_host,              *)
(* adjust_proxied_headers, ProxyState), src/src/routing.rs (router,        *)
(* match_backend, round_robin_select and the RR_COUNTER mutex),            *)
(* src/src/client.rs (Client::make_request) and src/src/metrics.rs         *)
(* (record_metrics).                                                       *)
(*                                                                         *)
(* Option<T> is modelled as a sequence of length 0 (None) or 1 (Some(x)).  *)
(* A header map is a function from the header names present to values.     *)
(* A Host / authority value is a sequence of tokens, ":" being a token of  *)
(* its own, so that split(":") is computed and not assumed.                *)
(***************************************************************************)
EXTENDS Integers, Sequences, FiniteSets, Bags, TLC

VARIABLES
    backends,               \* Config.backends, the registry (lib.rs:54)
    proxy_state,            \* ProxyState.backends (lib.rs:82-84)
    rr_map,                 \* the HashMap inside RR_COUNTER (routing.rs:9)
    rr_lock,                \* the Mutex of RR_COUNTER: holder and poison flag
    tasks,                  \* one record per in-flight handler invocation
    selected,               \* history: per backend name, what round_robin_select returned
    acquired,               \* history: per backend name, number of lock acquisitions
    http_request_counter,   \* METRICS.http_request_counter (metrics.rs:15)
    http_request_duration,  \* METRICS.http_request_duration (metrics.rs:16)
    routed                  \* number of requests that reached the router so far

vars == <<backends, proxy_state, rr_map, rr_lock, tasks, selected, acquired,
          http_request_counter, http_request_duration, routed>>

----------------------------------------------------------------------------
(* Bounds of the model *)

\* Number of requests that may reach the router in one behaviour of Spec.
MaxRouted == 3

\* Number of requests that may reach the router in one behaviour of SpecConc.
MaxRoutedConc == 4

\* Number of requests that may reach the router in one behaviour of
\* SpecRewrite.
MaxRoutedRewrite == 2

\* The worker tasks that may run the handler at the same time.
Workers == {"w1", "w2"}

\* The task of the sequential specification.
Worker1 == {"w1"}

----------------------------------------------------------------------------
(* Option<T> *)

None == <<>>

Some(x) == <<x>>

is_some(o) == o # <<>>

is_none(o) == o = <<>>

unwrap(o) == o[1]

----------------------------------------------------------------------------
(* Backend declarations and the registries the model starts from *)

L8000 == "127.0.0.1:8000"

L8001 == "127.0.0.1:8001"

L8002 == "127.0.0.1:8002"

Backend(n, loc, ty, locs) ==
    [name |-> n, location |-> loc, backend_type |-> ty, locations |-> locs]

\* The registry the tests run with: a single backend and a load balanced one.
ConfigTests ==
    << Backend(Some("test.home"), Some(L8000), None, None),
       Backend(Some("test-lb.home"), None, Some("loadbalanced"), Some(<<L8000, L8001>>)) >>

\* A registry the loader accepts although it is not valid: no field of a
\* Backend is required, and names may repeat, also with another kind.
ConfigLoose ==
    << Backend(None, Some(L8002), None, None),
       Backend(Some("test.home"), None, None, None),
       Backend(Some("test.home"), Some(L8000), None, None),
       Backend(Some("test-lb.home"), None, Some("loadbalanced"), None),
       Backend(Some("test-lb.home"), Some(L8001), None, None) >>

\* A registry with a load balanced backend of one location and one whose
\* locations list is empty.
ConfigEdge ==
    << Backend(Some("test.home"), Some(L8002), Some("loadbalanced"), Some(<<L8001>>)),
       Backend(Some("test-lb.home"), None, Some("loadbalanced"), Some(<<>>)) >>

Configs == {ConfigTests, ConfigLoose, ConfigEdge}

Names == {"test.home", "test-lb.home"}

----------------------------------------------------------------------------
(* Requests *)

Versions == {"HTTP_11", "HTTP_2", "HTTP_3"}

Methods == {"GET", "POST", "DELETE"}

Paths == {"/status", "/metrics", "/test"}

\* Host header values, tokenised at ":".
HostValues ==
    { <<"test.home">>, <<"test-lb.home">>, <<"unknown.home">>,
      <<"test.home", ":", "4000">>, <<"localhost", ":", "4000">>,
      <<"127.0.0.1", ":", "4000">>, <<"[", ":", ":", "1]", ":", "4000">> }

\* The strings that parse as an IpAddr.
IpLiterals == {"127.0.0.1", "::1"}

HeaderIf(present, name, value) == IF present THEN name :> value ELSE <<>>

\* A request: path is uri().path(), query the query string (an Option) and
\* body the payload; the requests built here have no query and no body.
Request(v, m, p, a, h) ==
    [version |-> v, method |-> m, path |-> p, query |-> None, authority |-> a,
     headers |-> h, body |-> ""]

\* Uri::path_and_query as text: the path, and "?" with the query when the
\* URI has one.
path_and_query(req) ==
    IF is_some(req.query) THEN req.path \o "?" \o unwrap(req.query) ELSE req.path

Requests ==
    { Request(v, m, p, None,
              HeaderIf(is_some(h), "host", IF is_some(h) THEN unwrap(h) ELSE <<>>)
              @@ HeaderIf(x, "x-no-proxy", "true")) :
        v \in Versions, m \in Methods, p \in Paths,
        h \in {None} \cup {Some(hv) : hv \in HostValues}, x \in BOOLEAN }

----------------------------------------------------------------------------
(* lib.rs: responses *)

\* Response::new(Body::empty()): status 200, no header, no extension.
Response_new(body) ==
    [status |-> 200, body |-> body, headers |-> <<>>, extensions |-> None]

\* {:?} of http::Version.
Debug(version) ==
    CASE version = "HTTP_09" -> "HTTP/0.9"
      [] version = "HTTP_10" -> "HTTP/1.0"
      [] version = "HTTP_11" -> "HTTP/1.1"
      [] version = "HTTP_2" -> "HTTP/2.0"
      [] version = "HTTP_3" -> "HTTP/3.0"

bad_request_handler(response, message) ==
    [response EXCEPT !.body = message, !.status = 400]

ResponseContext(location) == [backend_location |-> location]

----------------------------------------------------------------------------
(* lib.rs: get_host *)

\* HeaderValue::to_str: fails on a value with bytes outside visible ASCII.
NonAsciiValues == { <<"caf\\xe9.home">> }

to_str(value) == IF value \in NonAsciiValues THEN None ELSE Some(value)

\* s.split(":").next(): the text before the first colon; never None.
split_colon_next(tokens) ==
    IF tokens = <<>> \/ tokens[1] = ":" THEN "" ELSE tokens[1]

\* str::parse::<IpAddr>().ok()
parse_ip(s) == IF s \in IpLiterals THEN Some(s) ELSE None

get_host(req) ==
    LET host == IF "host" \in DOMAIN req.headers
                THEN to_str(req.headers["host"])
                ELSE req.authority
        ip_or_host == IF is_some(host) THEN unwrap(host) ELSE <<>>
        ip_or_host_no_port == Some(split_colon_next(ip_or_host))
    IN  IF ip_or_host_no_port = Some("localhost") THEN None
        ELSE IF is_some(parse_ip(unwrap(ip_or_host_no_port))) THEN None
        ELSE ip_or_host_no_port

----------------------------------------------------------------------------
(* routing.rs: router, match_backend, round_robin_select *)

\* find that keeps the last backend of the name instead of the first.
RECURSIVE find_backend_last(_, _, _)
find_backend_last(bs, host_header, i) ==
    IF i > Len(bs) THEN None
    ELSE LET later == find_backend_last(bs, host_header, i + 1)
         IN  IF is_some(later) THEN later
             ELSE IF is_some(bs[i].name) /\ host_header = unwrap(bs[i].name)
             THEN Some(bs[i])
             ELSE None

RECURSIVE find_backend(_, _, _)
find_backend(bs, host_header, i) ==
    IF i > Len(bs) THEN None
    ELSE IF is_some(bs[i].name) /\ host_header = unwrap(bs[i].name) THEN Some(bs[i])
    ELSE find_backend(bs, host_header, i + 1)

match_backend(bs, host_header) == find_backend(bs, host_header, 1)

\* router up to its call of round_robin_select: either it returns (an Option)
\* or it calls round_robin_select(name, locations).
router(bs, host_header) ==
    LET m == match_backend(bs, host_header)
        ret(v) == [kind |-> "return", value |-> v, backend_name |-> "", locs |-> <<>>]
    IN  IF is_none(m) THEN ret(None)
        ELSE LET backend == unwrap(m)
             IN  IF is_some(backend.backend_type)
                    /\ unwrap(backend.backend_type) = "loadbalanced"
                 THEN IF is_some(backend.locations)
                      THEN [kind |-> "round_robin_select", value |-> None,
                            backend_name |-> unwrap(backend.name),
                            locs |-> unwrap(backend.locations)]
                      ELSE ret(None)
                 ELSE IF is_some(backend.location) THEN ret(backend.location)
                 ELSE ret(None)

\* rr_map.get(name) as an Option.
rr_get(m, backend_name) ==
    IF backend_name \in DOMAIN m THEN Some(m[backend_name]) ELSE None

\* The map replaced by one that holds the inserted name alone.
rr_insert_fresh(m, backend_name, v) == backend_name :> v

\* rr_map.insert(name, v)
rr_insert(m, backend_name, v) ==
    [k \in DOMAIN m \cup {backend_name} |-> IF k = backend_name THEN v ELSE m[k]]

\* rr_next with the increment forgotten: the counter stays where it is.
rr_next_no_increment(entry, backend_count) ==
    IF is_some(entry)
    THEN IF unwrap(entry) = backend_count - 1 THEN 0 ELSE unwrap(entry)
    ELSE 0

\* rr_next without the reset at the last location.
rr_next_no_wrap(entry, backend_count) ==
    IF is_some(entry) THEN unwrap(entry) + 1 ELSE 0

\* rr_next starting a new backend at index 1.
rr_next_first_is_one(entry, backend_count) ==
    IF is_some(entry)
    THEN IF unwrap(entry) = backend_count - 1 THEN 0 ELSE unwrap(entry) + 1
    ELSE 1

\* The counter value round_robin_select stores, from the entry it read
\* (None: no key) and backend_count. backend_count - 1 is -1 for an empty
\* list here; no entry equals it, as none equals the wrapped value either.
rr_next(entry, backend_count) ==
    IF is_some(entry)
    THEN IF unwrap(entry) = backend_count - 1 THEN 0 ELSE unwrap(entry) + 1
    ELSE 0

\* A lock that does not exclude: it is granted whoever holds it.
lock_free_always(l) == TRUE

\* RR_COUNTER.lock(): granted when no task holds the mutex.
lock_free(l) == l.holder = None

\* The guard kept beyond the return of round_robin_select.
guard_kept(l) == l

\* routing.rs:72: the guard rr_map goes out of scope, the mutex is released.
guard_drop(l) == [l EXCEPT !.holder = None]

----------------------------------------------------------------------------
(* lib.rs: adjust_proxied_headers and the request rewrite of proxy_handler *)

\* The list with keep-alive, the one name written out by hand, left out.
HOP_BY_HOP_HEADERS_no_keep_alive ==
    { "transfer-encoding", "te", "connection", "trailer",
      "upgrade", "proxy-authorization", "proxy-authenticate" }

HOP_BY_HOP_HEADERS ==
    { "keep-alive", "transfer-encoding", "te", "connection", "trailer",
      "upgrade", "proxy-authorization", "proxy-authenticate" }

\* HeaderValue::from_str of a host without colon, in the token form of values.
HeaderValue_from_str(s) == IF s = "" THEN <<>> ELSE <<s>>

\* adjust_proxied_headers with the Host of the client kept when it sent one.
adjust_proxied_headers_host_kept(headers, host) ==
    LET kept == [n \in DOMAIN headers \ HOP_BY_HOP_HEADERS |-> headers[n]]
    IN  ("x-no-proxy" :> "true") @@ kept @@ ("host" :> HeaderValue_from_str(host))

\* adjust_proxied_headers without the insertion of x-no-proxy.
adjust_proxied_headers_no_marker(headers, host) ==
    LET kept == [n \in DOMAIN headers \ HOP_BY_HOP_HEADERS |-> headers[n]]
    IN  ("host" :> HeaderValue_from_str(host)) @@ kept

\* adjust_proxied_headers clearing the header map before its insertions.
adjust_proxied_headers_cleared(headers, host) ==
    ("x-no-proxy" :> "true") @@ ("host" :> HeaderValue_from_str(host))

\* The header map after adjust_proxied_headers(req, Some(host)).
adjust_proxied_headers(headers, host) ==
    LET kept == [n \in DOMAIN headers \ HOP_BY_HOP_HEADERS |-> headers[n]]
    IN  ("x-no-proxy" :> "true") @@ ("host" :> HeaderValue_from_str(host)) @@ kept

\* The rewrite with the URI built from uri().path(): the query is lost.
proxied_request_path_only(req, host, backend_location) ==
    [version |-> "HTTP_11", method |-> req.method, scheme |-> "http",
     authority |-> backend_location, path_and_query |-> req.path,
     headers |-> adjust_proxied_headers(req.headers, host), body |-> req.body]

\* The request handed to the client (lib.rs:256-284).
proxied_request(req, host, backend_location) ==
    [version |-> "HTTP_11", method |-> req.method, scheme |-> "http",
     authority |-> backend_location, path_and_query |-> path_and_query(req),
     headers |-> adjust_proxied_headers(req.headers, host), body |-> req.body]

----------------------------------------------------------------------------
(* metrics.rs *)

\* encode_metrics(): the text exposition of the registry, or an error.
EncodeResults ==
    { [ok |-> TRUE, text |-> "# HELP http_request_duration_seconds"],
      [ok |-> FALSE, text |-> "encoder error"] }

\* StatusCode::as_str
as_str(status) ==
    CASE status = 200 -> "200" [] status = 400 -> "400" [] status = 404 -> "404"
      [] status = 405 -> "405" [] status = 500 -> "500" [] status = 503 -> "503"
      [] status = 504 -> "504"

\* record_counter incrementing by two.
record_counter_twice(counter, response, backend_location) ==
    counter (+) SetToBag({<<as_str(response.status), backend_location>>})
            (+) SetToBag({<<as_str(response.status), backend_location>>})

\* record_metrics(response, backend_location, duration): the counter after it.
record_counter(counter, response, backend_location) ==
    counter (+) SetToBag({<<as_str(response.status), backend_location>>})

\* The observation recorded without the backend label.
record_duration_no_backend(histogram, response, backend_location) ==
    histogram (+) SetToBag({<<as_str(response.status), "">>})

\* record_metrics(response, backend_location, duration): the histogram after
\* it; an observation is kept by its labels, its value is not modelled.
record_duration(histogram, response, backend_location) ==
    histogram (+) SetToBag({<<as_str(response.status), backend_location>>})

\* The middleware around the handler: it records when the response carries a
\* Response context and passes the response on.
middleware_records(response) == is_some(response.extensions)

----------------------------------------------------------------------------
(* client.rs: Client::make_request *)

\* What the awaited timeout(..., client.request(req)) yields.
\*   response: Ok(Ok(response));  connect, timeout, other: Ok(Err(e));
\*   elapsed: Err(_), the deadline passed first.
Outcome(k, st, b) == [kind |-> k, status |-> st, body |-> b]

Outcomes ==
    { Outcome("response", 200, "This is the mock backend!"),
      Outcome("connect", 0, ""), Outcome("timeout", 0, ""),
      Outcome("other", 0, ""), Outcome("elapsed", 0, "") }

\* make_request without the is_connect branch: a connect failure is
\* answered as an unhandled error.
make_request_no_connect(outcome) ==
    CASE outcome.kind = "response" ->
            [Response_new(outcome.body) EXCEPT !.status = outcome.status]
      [] outcome.kind = "timeout" ->
            [Response_new("Connection timeout") EXCEPT !.status = 504]
      [] outcome.kind \in {"connect", "other"} ->
            [Response_new("Unhandled error, see logs") EXCEPT !.status = 500]
      [] outcome.kind = "elapsed" ->
            [Response_new("Request timeout") EXCEPT !.status = 503]

\* make_request answering 200 whatever the downstream answered.
make_request_status_dropped(outcome) ==
    CASE outcome.kind = "response" -> Response_new(outcome.body)
      [] outcome.kind = "connect" ->
            [Response_new("Cannot connect to backend") EXCEPT !.status = 503]
      [] outcome.kind = "timeout" ->
            [Response_new("Connection timeout") EXCEPT !.status = 504]
      [] outcome.kind = "other" ->
            [Response_new("Unhandled error, see logs") EXCEPT !.status = 500]
      [] outcome.kind = "elapsed" ->
            [Response_new("Request timeout") EXCEPT !.status = 503]

\* make_request answering an elapsed deadline as a gateway timeout.
make_request_elapsed_504(outcome) ==
    CASE outcome.kind = "response" ->
            [Response_new(outcome.body) EXCEPT !.status = outcome.status]
      [] outcome.kind = "connect" ->
            [Response_new("Cannot connect to backend") EXCEPT !.status = 503]
      [] outcome.kind = "timeout" ->
            [Response_new("Connection timeout") EXCEPT !.status = 504]
      [] outcome.kind = "other" ->
            [Response_new("Unhandled error, see logs") EXCEPT !.status = 500]
      [] outcome.kind = "elapsed" ->
            [Response_new("Request timeout") EXCEPT !.status = 504]

make_request(outcome) ==
    CASE outcome.kind = "response" ->
            [Response_new(outcome.body) EXCEPT !.status = outcome.status]
      [] outcome.kind = "connect" ->
            [Response_new("Cannot connect to backend") EXCEPT !.status = 503]
      [] outcome.kind = "timeout" ->
            [Response_new("Connection timeout") EXCEPT !.status = 504]
      [] outcome.kind = "other" ->
            [Response_new("Unhandled error, see logs") EXCEPT !.status = 500]
      [] outcome.kind = "elapsed" ->
            [Response_new("Request timeout") EXCEPT !.status = 503]

----------------------------------------------------------------------------
(* lib.rs: proxy_handler up to its call of router (lines 178-250) *)

\* The version gate without HTTP/2.
SupportedVersions_no_http2 == {"HTTP_10", "HTTP_11"}

SupportedVersions == {"HTTP_10", "HTTP_11", "HTTP_2"}

\* lib.rs:189-190: the versions the handler lets through.
version_supported(version) == version \in SupportedVersions

\* lib.rs:202
contains_no_proxy(headers) == "x-no-proxy" \in DOMAIN headers

\* The patterns of the match on (method, path, no_proxy, host_authority), in
\* the order the handler tries them (lib.rs:217, 220, 235).
\* The /status pattern with the no_proxy flag left open.
is_status_arm_any_flag(method, path, no_proxy, host_authority) ==
    method = "GET" /\ path = "/status"

\* The /status pattern with the host required to be undefined.
is_status_arm_no_host(method, path, no_proxy, host_authority) ==
    method = "GET" /\ path = "/status" /\ no_proxy /\ is_none(host_authority)

is_status_arm(method, path, no_proxy, host_authority) ==
    method = "GET" /\ path = "/status" /\ no_proxy

is_metrics_arm(method, path, no_proxy, host_authority) ==
    method = "GET" /\ path = "/metrics" /\ no_proxy

is_no_host_arm(method, path, no_proxy, host_authority) ==
    ~no_proxy /\ is_none(host_authority)

\* The /status response with a Response context attached.
status_response_annotated(response) ==
    [response EXCEPT !.body = "The proxy is running",
                     !.extensions = Some(ResponseContext("internal"))]

\* lib.rs:217-219
status_response(response) == [response EXCEPT !.body = "The proxy is running"]

\* lib.rs:220-232
metrics_response(response, encoded) ==
    IF encoded.ok
    THEN [response EXCEPT !.body = encoded.text,
                          !.headers = "content-type" :> "text/plain; charset=utf-8"]
    ELSE [response EXCEPT !.body = "Error encoding metrics: " \o encoded.text,
                          !.status = 500]

\* lib.rs:235-239
no_host_response(response) ==
    [response EXCEPT !.body = "Host header not defined", !.status = 404]

\* step: "return" (the handler returns response), "router" (it calls router
\* with host) or "panic" (expect on a missing host_authority).
\* arm: the arm of the handler that decided.
proxy_handler(req, encoded) ==
    LET response == Response_new("")
        out(s, a, r, h) == [step |-> s, arm |-> a, response |-> r, host |-> h]
    IN  IF ~version_supported(req.version)
        THEN out("return", "version",
                 bad_request_handler(response,
                     "Unsupported HTTP version: " \o Debug(req.version)), None)
        ELSE
        LET host_authority == get_host(req)
            no_proxy == contains_no_proxy(req.headers)
        IN  IF is_status_arm(req.method, req.path, no_proxy, host_authority)
            THEN out("return", "status", status_response(response), host_authority)
            ELSE IF is_metrics_arm(req.method, req.path, no_proxy, host_authority)
            THEN out("return", "metrics", metrics_response(response, encoded),
                     host_authority)
            ELSE IF is_no_host_arm(req.method, req.path, no_proxy, host_authority)
            THEN out("return", "no_host", no_host_response(response), host_authority)
            ELSE IF is_none(host_authority)
            THEN out("panic", "proxy", response, host_authority)
            ELSE out("router", "proxy", response, host_authority)

\* The None arm with the status left as it was.
not_found_status_kept(response) == response

\* lib.rs:252-255: the router returned None.
not_found(response) == [response EXCEPT !.status = 404]

\* annotate with the insertion of the context forgotten.
annotate_never(response, backend_location) == response

\* lib.rs:292-294: the response of the client, annotated.
annotate(response, backend_location) ==
    [response EXCEPT !.extensions = Some(ResponseContext(backend_location))]

\* The methods run_server routes to proxy_handler: get (which also serves
\* HEAD), post and put; any other method is answered 405 by the Router.
RoutedMethods == {"GET", "HEAD", "POST", "PUT"}

----------------------------------------------------------------------------
(* lib.rs: ProxyState::new *)

\* ProxyState::new that keeps the first declaration of a name: a later
\* backend of the same name does not replace the entry.
RECURSIVE ProxyState_insert_first(_, _, _)
ProxyState_insert_first(bs, i, m) ==
    IF i > Len(bs) THEN m
    ELSE ProxyState_insert_first(bs, i + 1,
            IF is_some(bs[i].name) /\ unwrap(bs[i].name) \in DOMAIN m THEN m
            ELSE IF bs[i].backend_type = Some("loadbalanced") /\ is_some(bs[i].name)
            THEN rr_insert(m, unwrap(bs[i].name), Some([rr_count |-> -1]))
            ELSE IF is_some(bs[i].name)
            THEN rr_insert(m, unwrap(bs[i].name), None)
            ELSE m)

RECURSIVE ProxyState_insert(_, _, _)
ProxyState_insert(bs, i, m) ==
    IF i > Len(bs) THEN m
    ELSE ProxyState_insert(bs, i + 1,
            IF bs[i].backend_type = Some("loadbalanced") /\ is_some(bs[i].name)
            THEN rr_insert(m, unwrap(bs[i].name), Some([rr_count |-> -1]))
            ELSE IF is_some(bs[i].name)
            THEN rr_insert(m, unwrap(bs[i].name), None)
            ELSE m)

ProxyState_new(bs) == ProxyState_insert(bs, 1, <<>>)

----------------------------------------------------------------------------
(* State *)

NoRequest == Request("", "", "", None, <<>>)

NoOutcome == Outcome("", 0, "")

\* An exchange: the request, what answered it and how far it went.
\*   kind: "none", "response" or "panic" (the task unwound, no response);
\*   handler: proxy_handler was invoked;  arm: the arm that answered;
\*   host: the host_authority it extracted;  router: router was called;
\*   upstream: the request given to the client, if any;  outcome: of the client.
Exchange(k, req, hd, arm, h, rt, up, oc, rsp) ==
    [kind |-> k, req |-> req, handler |-> hd, arm |-> arm, host |-> h,
     router |-> rt, upstream |-> up, outcome |-> oc, response |-> rsp]

NoExchange ==
    Exchange("none", NoRequest, FALSE, "", None, FALSE, None, "", Response_new(""))

\* A task: where it is (pc) and the locals it holds there.
\*   idle; lock, read, write: in round_robin_select; await: in make_request;
\*   done: the exchange ended and is on its way to the client.
\*   sends: the requests given to the client for the exchange so far;
\*   yielded: what the awaited client call yielded, once it has.
IdleTask ==
    [pc |-> "idle", req |-> NoRequest, host |-> "", backend_name |-> "",
     locs |-> <<>>, entry |-> None, ticket |-> 0, location |-> "",
     sends |-> 0, yielded |-> NoOutcome, exchange |-> NoExchange]

Init ==
    /\ backends \in Configs
    /\ proxy_state = ProxyState_new(backends)
    /\ rr_map = <<>>
    /\ rr_lock = [holder |-> None, poisoned |-> FALSE]
    /\ tasks = [t \in Workers |-> IdleTask]
    /\ selected = [n \in Names |-> <<>>]
    /\ acquired = [n \in Names |-> 0]
    /\ http_request_counter = EmptyBag
    /\ http_request_duration = EmptyBag
    /\ routed = 0

----------------------------------------------------------------------------
(* Actions *)

\* The exchange of task t ended.
Done(t, exchange) ==
    tasks' = [tasks EXCEPT ![t] =
                [IdleTask EXCEPT !.pc = "done", !.exchange = exchange,
                                 !.sends = tasks[t].sends]]

\* The task t starts awaiting client.make_request (lib.rs:256-285).
Forward(t, req, host, backend_location) ==
    tasks' = [tasks EXCEPT ![t] =
                [IdleTask EXCEPT !.pc = "await", !.req = req, !.host = host,
                                 !.location = backend_location,
                                 !.sends = tasks[t].sends + 1]]

\* The middleware around the handler, on the response the handler returned.
Middleware(response) ==
    IF middleware_records(response)
    THEN /\ http_request_counter' =
               record_counter(http_request_counter, response,
                              unwrap(response.extensions).backend_location)
         /\ http_request_duration' =
               record_duration(http_request_duration, response,
                               unwrap(response.extensions).backend_location)
    ELSE UNCHANGED <<http_request_counter, http_request_duration>>

\* A request arrives and runs on task t: the Router of run_server, then
\* proxy_handler up to its first suspension or its return. At most budget
\* requests reach the router.
Serve(t, req, encoded, budget) ==
    /\ tasks[t].pc = "idle"
    /\ LET d == proxy_handler(req, encoded)
       IN  IF req.method \notin RoutedMethods
           THEN /\ Done(t, Exchange("response", req, FALSE, "", None, FALSE, None, "",
                                    [Response_new("") EXCEPT !.status = 405]))
                /\ UNCHANGED <<routed, http_request_counter, http_request_duration>>
           ELSE IF d.step = "return"
           THEN /\ Done(t, Exchange("response", req, TRUE, d.arm, d.host, FALSE,
                                    None, "", d.response))
                /\ Middleware(d.response)
                /\ UNCHANGED routed
           ELSE IF d.step = "panic"
           THEN /\ Done(t, Exchange("panic", req, TRUE, d.arm, d.host, FALSE,
                                    None, "", Response_new("")))
                /\ UNCHANGED <<routed, http_request_counter, http_request_duration>>
           ELSE /\ routed < budget
                /\ routed' = routed + 1
                /\ LET r == router(backends, unwrap(d.host))
                   IN  IF r.kind = "round_robin_select"
                       THEN /\ tasks' = [tasks EXCEPT ![t] =
                                  [IdleTask EXCEPT !.pc = "lock", !.req = req,
                                       !.host = unwrap(d.host),
                                       !.backend_name = r.backend_name,
                                       !.locs = r.locs]]
                            /\ UNCHANGED <<http_request_counter, http_request_duration>>
                       ELSE IF is_none(r.value)
                       THEN /\ Done(t, Exchange("response", req, TRUE, d.arm, d.host,
                                                TRUE, None, "", not_found(d.response)))
                            /\ Middleware(not_found(d.response))
                       ELSE /\ Forward(t, req, unwrap(d.host), unwrap(r.value))
                            /\ UNCHANGED <<http_request_counter, http_request_duration>>
    /\ UNCHANGED <<backends, proxy_state, rr_map, rr_lock, selected, acquired>>

\* routing.rs:50, RR_COUNTER.lock().unwrap(): the task gets the mutex when it
\* is free; unwrap panics when an earlier holder panicked.
RRLock(t) ==
    /\ tasks[t].pc = "lock"
    /\ lock_free(rr_lock)
    /\ IF rr_lock.poisoned
       THEN /\ Done(t, Exchange("panic", tasks[t].req, TRUE, "proxy",
                                Some(tasks[t].host), TRUE, None, "", Response_new("")))
            /\ UNCHANGED <<rr_lock, acquired>>
       ELSE /\ rr_lock' = [rr_lock EXCEPT !.holder = Some(t)]
            /\ acquired' = [acquired EXCEPT ![tasks[t].backend_name] = @ + 1]
            /\ tasks' = [tasks EXCEPT ![t].pc = "read",
                                      ![t].ticket = acquired[tasks[t].backend_name]]
    /\ UNCHANGED <<backends, proxy_state, rr_map, selected,
                   http_request_counter, http_request_duration, routed>>

\* routing.rs:53-61: the task reads the entry of its backend.
RRRead(t) ==
    /\ tasks[t].pc = "read"
    /\ tasks' = [tasks EXCEPT ![t].pc = "write",
                              ![t].entry = rr_get(rr_map, tasks[t].backend_name)]
    /\ UNCHANGED <<backends, proxy_state, rr_map, rr_lock, selected, acquired,
                   http_request_counter, http_request_duration, routed>>

\* routing.rs:57-58, 62-63, 69-70: the task stores the new counter, indexes
\* the locations and returns, which drops the guard; an index out of bounds
\* panics with the guard held, which poisons the mutex. proxy_handler goes on
\* with the location (lib.rs:256-285).
RRWrite(t) ==
    /\ tasks[t].pc = "write"
    /\ LET new == rr_next(tasks[t].entry, Len(tasks[t].locs))
       IN  /\ rr_map' = rr_insert(rr_map, tasks[t].backend_name, new)
           /\ IF new + 1 > Len(tasks[t].locs)
              THEN /\ rr_lock' = [holder |-> None, poisoned |-> TRUE]
                   /\ Done(t, Exchange("panic", tasks[t].req, TRUE, "proxy",
                                       Some(tasks[t].host), TRUE, None, "",
                                       Response_new("")))
                   /\ UNCHANGED selected
              ELSE /\ rr_lock' = guard_drop(rr_lock)
                   /\ selected' = [selected EXCEPT ![tasks[t].backend_name] =
                          Append(@, [ticket |-> tasks[t].ticket, index |-> new,
                                     location |-> tasks[t].locs[new + 1]])]
                   /\ Forward(t, tasks[t].req, tasks[t].host, tasks[t].locs[new + 1])
    /\ UNCHANGED <<backends, proxy_state, acquired,
                   http_request_counter, http_request_duration, routed>>

\* lib.rs:285-299: the handler resumes with what the client call yielded,
\* annotates the response and returns it through the middleware.
Resume(t, outcome) ==
    /\ LET response == annotate(make_request(outcome), tasks[t].location)
           exchange == Exchange("response", tasks[t].req, TRUE, "proxy",
                                Some(tasks[t].host), TRUE,
                                Some(proxied_request(tasks[t].req, tasks[t].host,
                                                     tasks[t].location)),
                                outcome.kind, response)
       IN  /\ tasks' = [tasks EXCEPT ![t] =
                          [IdleTask EXCEPT !.pc = "done", !.exchange = exchange,
                                           !.sends = tasks[t].sends,
                                           !.yielded = outcome]]
           /\ Middleware(response)
    /\ UNCHANGED <<backends, proxy_state, rr_map, rr_lock, selected, acquired, routed>>

\* The client giving the request to the downstream once more after a
\* connect failure.
UpstreamReturn_retry(t, outcome) ==
    /\ tasks[t].pc = "await"
    /\ IF outcome.kind = "connect" /\ tasks[t].sends < 2
       THEN /\ tasks' = [tasks EXCEPT ![t].sends = @ + 1]
            /\ UNCHANGED <<backends, proxy_state, rr_map, rr_lock, selected,
                           acquired, routed, http_request_counter,
                           http_request_duration>>
       ELSE Resume(t, outcome)

\* The client call awaited without timeout(..): the deadline never fires.
UpstreamReturn_no_deadline(t, outcome) ==
    /\ tasks[t].pc = "await"
    /\ outcome.kind # "elapsed"
    /\ Resume(t, outcome)

\* client.rs:18-52: the awaited timeout(.., client.request(req)) yields, by
\* an answer or a failure of the downstream or by the deadline, and the
\* handler resumes.
UpstreamReturn(t, outcome) ==
    /\ tasks[t].pc = "await"
    /\ Resume(t, outcome)

\* The server writes the response to the connection (or the connection of a
\* panicked task is closed); the task is free for the next request.
Respond(t) ==
    /\ tasks[t].pc = "done"
    /\ tasks' = [tasks EXCEPT ![t] = IdleTask]
    /\ UNCHANGED <<backends, proxy_state, rr_map, rr_lock, selected, acquired,
                   http_request_counter, http_request_duration, routed>>

\* One request at a time, every request the model knows.
Next ==
    \E t \in Worker1 :
        \/ \E req \in Requests, encoded \in EncodeResults :
              Serve(t, req, encoded, MaxRouted)
        \/ RRLock(t)
        \/ RRRead(t)
        \/ RRWrite(t)
        \/ \E outcome \in Outcomes : UpstreamReturn(t, outcome)
        \/ Respond(t)

Spec == Init /\ [][Next]_vars

\* The requests of the concurrent specification: the ones the tests send to
\* the two backends.
ConcRequests ==
    { Request("HTTP_11", "GET", "/test", None, "host" :> hv) :
        hv \in { <<"test.home">>, <<"test-lb.home">> } }

ConcOutcomes == { Outcome("response", 200, "This is the mock backend!") }

\* Requests run on the workers at the same time.
NextConc ==
    \E t \in Workers :
        \/ \E req \in ConcRequests, encoded \in EncodeResults :
              Serve(t, req, encoded, MaxRoutedConc)
        \/ RRLock(t)
        \/ RRRead(t)
        \/ RRWrite(t)
        \/ \E outcome \in ConcOutcomes : UpstreamReturn(t, outcome)
        \/ Respond(t)

SpecConc == Init /\ [][NextConc]_vars

\* The header sets of the requests of the rewrite specification, next to
\* the host: none; some hop-by-hop headers and an end-to-end one; every
\* hop-by-hop header, x-no-proxy with another value and an end-to-end one;
\* x-no-proxy as a proxy sets it.
RewriteHeaderSets ==
    { <<>>,
      ("connection" :> "keep-alive") @@ ("keep-alive" :> "timeout=5")
         @@ ("accept" :> "*/*"),
      [h \in { "keep-alive", "transfer-encoding", "te", "connection", "trailer",
                "upgrade", "proxy-authorization", "proxy-authenticate" } |-> "x"]
         @@ ("x-no-proxy" :> "false")
         @@ ("content-type" :> "text/plain"),
      ("x-no-proxy" :> "true") @@ ("te" :> "trailers") }

\* Method and body of the requests of the rewrite specification.
RewriteMethods ==
    { <<"GET", "">>, <<"HEAD", "">>, <<"POST", "payload">>, <<"PUT", "payload">> }

\* The requests of the rewrite specification: HTTP/1.1 requests name the
\* host in the Host header, HTTP/2 requests in the URI authority; with and
\* without a port, a query string, a body and further headers.
RewriteRequests ==
    { [ Request(v, mb[1], "/test",
                IF v = "HTTP_2" THEN Some(hv) ELSE None,
                HeaderIf(v # "HTTP_2", "host", hv) @@ hs)
        EXCEPT !.query = q, !.body = mb[2] ] :
        v \in {"HTTP_11", "HTTP_2"}, mb \in RewriteMethods,
        hv \in { <<"test.home", ":", "4000">>, <<"test-lb.home">> },
        hs \in RewriteHeaderSets, q \in {None, Some("a=1&b=2")} }

\* What the downstream of the rewrite specification answers, or does not.
RewriteOutcomes ==
    { Outcome("response", 200, "This is the mock backend!"),
      Outcome("response", 404, "Not found"),
      Outcome("connect", 0, "") }

\* One request at a time, the requests that exercise the rewrite.
NextRewrite ==
    \E t \in Worker1 :
        \/ \E req \in RewriteRequests, encoded \in EncodeResults :
              Serve(t, req, encoded, MaxRoutedRewrite)
        \/ RRLock(t)
        \/ RRRead(t)
        \/ RRWrite(t)
        \/ \E outcome \in RewriteOutcomes : UpstreamReturn(t, outcome)
        \/ Respond(t)

SpecRewrite == Init /\ [][NextRewrite]_vars

\* The deadline of the call task t awaits passes (client.rs:19-23, 46).
Deadline(t) == UpstreamReturn(t, Outcome("elapsed", 0, ""))

\* One request at a time, to the two backends of the tests; the downstream
\* may answer, fail or stay silent.
NextLive ==
    \E t \in Worker1 :
        \/ \E req \in ConcRequests, encoded \in EncodeResults :
              Serve(t, req, encoded, MaxRouted)
        \/ RRLock(t)
        \/ RRRead(t)
        \/ RRWrite(t)
        \/ \E outcome \in Outcomes : UpstreamReturn(t, outcome)
        \/ Respond(t)

\* The timer of timeout(..) fires when the call has not yielded before: the
\* deadline is the one step the runtime guarantees; the downstream is not
\* bound to answer.
SpecLive ==
    Init /\ [][NextLive]_vars /\ \A t \in Worker1 : WF_vars(Deadline(t))

----------------------------------------------------------------------------
(* Helpers of the properties *)

\* The exchanges that have ended and are on their way to the client.
Ended == { tasks[t].exchange : t \in { u \in Workers : tasks[u].pc = "done" } }

\* The locations of the load balanced backend that name n routes to; the
\* empty sequence when n does not route to one.
LbLocations(n) ==
    LET r == router(backends, n)
    IN  IF r.kind = "round_robin_select" THEN r.locs ELSE <<>>

InternalArms == {"status", "metrics"}

----------------------------------------------------------------------------
(* Properties *)

\* C1: for a load balanced backend with locations L0..L(N-1), N >= 1, the
\* sequence of locations round_robin_select has returned for it since the
\* start is L0, L1, ..., L(N-1), L0, ...: the k-th one (from 0) is L(k mod N).
C1_RoundRobinOrder ==
    \A n \in Names :
        LET locs == LbLocations(n)
        IN  Len(locs) >= 1 =>
                \A k \in 1..Len(selected[n]) :
                    selected[n][k].location = locs[((k - 1) % Len(locs)) + 1]

\* C1 witness: a backend of two locations has been selected three times, so
\* the order has wrapped around.
C1_Witness ==
    \E n \in Names : Len(LbLocations(n)) = 2 /\ Len(selected[n]) >= 3

\* C2: the tasks that call the router at the same time are serialised by the
\* mutex: at most one task is between lock and return, it is the holder, and
\* in the order the lock was acquired (the ticket) the calls of a backend get
\* the indexes 0, 1, ..., N-1, 0, ...; no two calls of one rotation of N calls
\* get the same index.
C2_SerializedSelection ==
    /\ Cardinality({ t \in Workers : tasks[t].pc \in {"read", "write"} }) <= 1
    /\ \A t \in Workers : tasks[t].pc \in {"read", "write"} => rr_lock.holder = Some(t)
    /\ \A n \in Names :
        LET N == Len(LbLocations(n))
        IN  N >= 1 =>
              /\ \A k \in 1..Len(selected[n]) :
                    /\ selected[n][k].ticket = k - 1
                    /\ selected[n][k].index = (k - 1) % N
              /\ \A j, k \in 1..Len(selected[n]) :
                    (j # k /\ (j - 1) \div N = (k - 1) \div N)
                        => selected[n][j].index # selected[n][k].index

\* C2 witness: a task waits for the mutex while another task, which called
\* the router for the same backend, holds it, and a third call has returned.
C2_Witness ==
    \E t, u \in Workers :
        /\ tasks[t].pc = "lock"
        /\ tasks[u].pc = "write"
        /\ tasks[t].backend_name = tasks[u].backend_name
        /\ Len(LbLocations(tasks[t].backend_name)) = 2
        /\ Len(selected[tasks[t].backend_name]) >= 1

\* C3 (as claimed): whenever the upstream call times out, by the deadline or
\* by a timeout of the transport, the response has status 504 and body
\* "Request timeout".
C3_TimeoutIs504 ==
    \A e \in Ended :
        e.outcome \in {"elapsed", "timeout"} =>
            e.response.status = 504 /\ e.response.body = "Request timeout"

\* C4 (as claimed): a request the handler lets through the version gate,
\* whose host identity is undefined and which no internal endpoint answers,
\* gets 404 with body "Host header not defined".
C4_UndefinedHostIs404 ==
    \A e \in Ended :
        ( e.handler /\ e.req.version \in {"HTTP_10", "HTTP_11", "HTTP_2"}
          /\ is_none(get_host(e.req)) /\ e.arm \notin InternalArms )
        => ( e.kind = "response" /\ e.response.status = 404
             /\ e.response.body = "Host header not defined" )

\* C5 (as claimed): every invocation of the handler ends with a response;
\* none panics.
C5_NoPanic ==
    \A e \in Ended : e.handler => e.kind = "response"

\* The header maps adjust_proxied_headers produces from the requests.
ForwardedHeaders ==
    { adjust_proxied_headers(r.headers, unwrap(get_host(r))) :
        r \in { q \in Requests : is_some(get_host(q)) /\ unwrap(get_host(q)) # "" } }

\* C6 (as claimed): a request that arrives with the headers of a forwarded
\* request (HTTP/1.1, x-no-proxy: true, Host = a host identity) is never
\* given to the upstream client.
C6_ForwardedNotForwardedAgain ==
    \A t \in Workers :
        tasks[t].pc = "await" =>
            ~( tasks[t].req.version = "HTTP_11"
               /\ tasks[t].req.headers \in ForwardedHeaders )

\* C7: the handler answers 400 with body "Unsupported HTTP version: <v>"
\* exactly when the version is none of HTTP/1.0, HTTP/1.1, HTTP/2, and then
\* it has extracted no host, called no router and no upstream client and
\* attached no Response context.
C7_VersionGate ==
    \A e \in Ended :
        e.handler =>
          /\ ( e.kind = "response" /\ e.response.status = 400
               /\ e.response.body = "Unsupported HTTP version: " \o Debug(e.req.version) )
             <=> e.req.version \notin {"HTTP_10", "HTTP_11", "HTTP_2"}
          /\ e.req.version \notin {"HTTP_10", "HTTP_11", "HTTP_2"}
             => ( e.arm = "version" /\ is_none(e.host) /\ ~e.router
                  /\ is_none(e.upstream) /\ is_none(e.response.extensions) )

\* C7 witness: a request of HTTP/3 was answered 400.
C7_Witness ==
    \E e \in Ended :
        e.handler /\ e.req.version = "HTTP_3" /\ e.response.status = 400

\* A step in which the exchange of task t ends.
Ends(t) == tasks[t].pc # "done" /\ tasks'[t].pc = "done"

\* C8: a response of GET /status or GET /metrics carries no Response context,
\* and the step that produces it leaves the counter and the histogram as
\* they were.
C8_InternalIsolation ==
    [][ \A t \in Workers :
          (Ends(t) /\ tasks'[t].exchange.arm \in InternalArms)
          => /\ is_none(tasks'[t].exchange.response.extensions)
             /\ http_request_counter' = http_request_counter
             /\ http_request_duration' = http_request_duration ]_vars

\* C8 witness: /metrics was answered after a request had been counted.
C8_Witness ==
    \E e \in Ended :
        e.arm = "metrics" /\ e.response.status = 200
        /\ http_request_counter # EmptyBag

\* C9: a request without the x-no-proxy header is never answered by the
\* /status or the /metrics endpoint.
C9_InternalNeedsNoProxy ==
    \A e \in Ended :
        "x-no-proxy" \notin DOMAIN e.req.headers => e.arm \notin InternalArms

\* C9 witness: GET /status without x-no-proxy was answered, by another arm.
C9_Witness ==
    \E e \in Ended :
        /\ e.handler /\ e.req.method = "GET" /\ e.req.path = "/status"
        /\ e.req.version = "HTTP_11"
        /\ "x-no-proxy" \notin DOMAIN e.req.headers
        /\ e.kind = "response"

C11_MetricsOncePerContext ==
    [][ /\ \A t \in Workers :
             Ends(t) =>
               LET e == tasks'[t].exchange
                   labels == <<as_str(e.response.status), tasks[t].location>>
               IN  IF e.kind = "response" /\ is_some(e.response.extensions)
                   THEN /\ tasks[t].pc = "await"
                        /\ unwrap(e.response.extensions).backend_location
                              = tasks[t].location
                        /\ http_request_counter'
                              = http_request_counter (+) SetToBag({labels})
                        /\ http_request_duration'
                              = http_request_duration (+) SetToBag({labels})
                   ELSE /\ http_request_counter' = http_request_counter
                        /\ http_request_duration' = http_request_duration
        /\ (\A t \in Workers : ~Ends(t))
              => /\ http_request_counter' = http_request_counter
                 /\ http_request_duration' = http_request_duration ]_vars

\* C11 witness: a synthesized 503 of a forwarded request was counted once
\* under its location, after which a response without context has ended.
C11_Witness ==
    \E e \in Ended :
        /\ e.kind = "response" /\ is_none(e.response.extensions)
        /\ e.response.status = 404
        /\ BagIn(<<"503", L8000>>, http_request_counter)
        /\ CopiesIn(<<"503", L8000>>, http_request_counter) = 1
        /\ CopiesIn(<<"503", L8000>>, http_request_duration) = 1

\* The arms of the handler that answer without calling the router.
LocalArms == {"version", "status", "metrics", "no_host"}

\* C12: a response carries a Response context exactly when the upstream
\* client was invoked for its request, and the context names the location the
\* request was sent to: the responses relayed from the downstream and the
\* ones synthesized for a connect failure, a timeout or another failure are
\* annotated; the 400, the two 404 of the handler and the responses of the
\* internal endpoints are not.
C12_ContextIffUpstream ==
    \A e \in Ended :
        e.kind = "response" =>
          /\ is_some(e.response.extensions) <=> is_some(e.upstream)
          /\ is_some(e.upstream) =>
               /\ e.outcome \in {"response", "connect", "timeout", "other", "elapsed"}
               /\ unwrap(e.response.extensions).backend_location
                     = unwrap(e.upstream).authority
          /\ (e.handler /\ (e.arm \in LocalArms \/ is_none(e.upstream)))
               => is_none(e.response.extensions)

\* C12 witness: the response synthesized for a connect failure to the second
\* location of the load balanced backend carries that location.
C12_Witness ==
    \E e \in Ended :
        /\ e.outcome = "connect"
        /\ e.response.extensions = Some(ResponseContext(L8001))
        /\ unwrap(e.upstream).authority = L8001

\* C13: a connect failure of the upstream call is answered 503 with body
\* "Cannot connect to backend"; a failure that is neither a connect failure
\* nor a timeout is answered 500 with body "Unhandled error, see logs".
C13_FailureClassification ==
    \A e \in Ended :
        /\ e.outcome = "connect" =>
              ( e.kind = "response" /\ e.response.status = 503
                /\ e.response.body = "Cannot connect to backend" )
        /\ e.outcome = "other" =>
              ( e.kind = "response" /\ e.response.status = 500
                /\ e.response.body = "Unhandled error, see logs" )

\* C13 witness: an upstream call failed to connect and was answered 503.
C13_Witness ==
    \E e \in Ended :
        e.outcome = "connect" /\ e.response.status = 503 /\ is_some(e.upstream)

\* C14: when the router returns None for the host the handler extracted, the
\* response is 404 with an empty body, the upstream client was not invoked
\* and the response carries no Response context.
C14_NoLocationIs404 ==
    \A e \in Ended :
        ( e.router /\ router(backends, unwrap(e.host)).kind = "return"
          /\ is_none(router(backends, unwrap(e.host)).value) )
        => /\ e.kind = "response"
           /\ e.response.status = 404
           /\ e.response.body = ""
           /\ is_none(e.upstream)
           /\ is_none(e.response.extensions)

\* C14 witness: a request for a host no backend is named after was answered.
C14_Witness ==
    \E e \in Ended :
        /\ e.router /\ e.host = Some("unknown.home")
        /\ e.response.status = 404

\* The positions of the first backend of the registry named h: one position,
\* or none.
FirstMatch(bs, h) ==
    { i \in 1..Len(bs) :
        /\ bs[i].name = Some(h)
        /\ \A j \in 1..(i - 1) : bs[j].name # Some(h) }

IsLoadBalanced(b) == b.backend_type = Some("loadbalanced")

\* The locations a backend declares for its kind.
Declared(b) ==
    IF IsLoadBalanced(b)
    THEN IF is_some(b.locations)
         THEN { unwrap(b.locations)[k] : k \in 1..Len(unwrap(b.locations)) }
         ELSE {}
    ELSE IF is_some(b.location) THEN {unwrap(b.location)} ELSE {}

\* C15: a call of the router that returned took the first backend of the
\* registry whose name equals the host: the location it returned is declared
\* by that backend (its location when it is single, one of its locations
\* when it is load balanced) and by no later or other backend in its place;
\* it returned None when no backend has the name; it returned the location
\* of a single first match that declares one, and a location of a load
\* balanced first match that declares some.
C15_FirstExactMatch ==
    \A e \in Ended :
        (e.router /\ e.kind = "response") =>
            LET h == unwrap(e.host)
                fm == FirstMatch(backends, h)
            IN  /\ fm = {} => (is_none(e.upstream) /\ e.response.status = 404)
                /\ is_some(e.upstream) =>
                      \E i \in fm :
                          unwrap(e.upstream).authority \in Declared(backends[i])
                /\ \A i \in fm :
                      /\ (~IsLoadBalanced(backends[i]) /\ is_some(backends[i].location))
                            => /\ is_some(e.upstream)
                               /\ unwrap(e.upstream).authority
                                     = unwrap(backends[i].location)
                      /\ (IsLoadBalanced(backends[i]) /\ Declared(backends[i]) # {})
                            => is_some(e.upstream)

\* C15 witness: a request for the load balanced backend was routed to its
\* second location.
C15_Witness ==
    \E e \in Ended :
        /\ e.router /\ e.host = Some("test-lb.home") /\ is_some(e.upstream)
        /\ unwrap(e.upstream).authority = L8001

\* C16 (as claimed): a request whose host matches a load balanced backend
\* with an empty locations list ends as one for which the router found no
\* match: a 404 response, no upstream call, nothing raised.
C16_EmptyLocationsNoMatch ==
    \A e \in Ended :
        ( e.router
          /\ \E i \in FirstMatch(backends, unwrap(e.host)) :
                /\ IsLoadBalanced(backends[i])
                /\ backends[i].locations = Some(<<>>) )
        => ( e.kind = "response" /\ e.response.status = 404
             /\ is_none(e.upstream) )

\* A step in which task t leaves round_robin_select having found no entry
\* for its backend (routing.rs:65-71).
LeavesWithoutEntry(t) ==
    /\ tasks[t].pc = "write"
    /\ is_none(tasks[t].entry)
    /\ tasks'[t].pc # "write"

\* C17 (as claimed): a call of round_robin_select that finds no entry for
\* the name of its backend returns None, so the request is answered 404 with
\* no upstream call, and the call creates no entry.
C17_NoEntryNoMatch ==
    [][ \A t \in Workers :
          LeavesWithoutEntry(t) =>
            /\ tasks'[t].pc = "done"
            /\ tasks'[t].exchange.kind = "response"
            /\ tasks'[t].exchange.response.status = 404
            /\ is_none(tasks'[t].exchange.upstream)
            /\ rr_map' = rr_map ]_vars

\* C17 (amended): a call of round_robin_select that finds no entry for the
\* name of its backend never returns None: when it returns, it has created
\* the entry with index 0 and returns the first location of the backend, to
\* which the request is forwarded.
C17_NoEntryStartsAtFirst ==
    [][ \A t \in Workers :
          LeavesWithoutEntry(t) =>
            \/ /\ tasks'[t].pc = "await"
               /\ tasks'[t].location = tasks[t].locs[1]
               /\ tasks[t].backend_name \notin DOMAIN rr_map
               /\ tasks[t].backend_name \in DOMAIN rr_map'
               /\ rr_map'[tasks[t].backend_name] = 0
            \/ /\ tasks'[t].pc = "done"
               /\ tasks'[t].exchange.kind = "panic" ]_vars

\* C17 witness: the first request for a load balanced backend of two
\* locations has been routed: the entry is 0 and the first location was
\* returned.
C17_Witness ==
    \E n \in Names :
        /\ Len(LbLocations(n)) = 2
        /\ n \in DOMAIN rr_map /\ rr_map[n] = 0
        /\ Len(selected[n]) = 1
        /\ selected[n][1].location = LbLocations(n)[1]

\* The state of a load balanced backend as ProxyState::new creates it.
FreshCursor == Some([rr_count |-> -1])

\* C18 (as claimed): after construction the routing state has an entry, with
\* cursor -1, for exactly the backends that are load balanced and named, and
\* no entry for a backend of kind single.
C18_EntriesOnlyForLoadBalanced ==
    /\ \A i \in 1..Len(backends) :
          (IsLoadBalanced(backends[i]) /\ is_some(backends[i].name))
             => /\ unwrap(backends[i].name) \in DOMAIN proxy_state
                /\ proxy_state[unwrap(backends[i].name)] = FreshCursor
    /\ \A n \in DOMAIN proxy_state :
          \E i \in 1..Len(backends) :
              IsLoadBalanced(backends[i]) /\ backends[i].name = Some(n)
    /\ \A i \in 1..Len(backends) :
          (~IsLoadBalanced(backends[i]) /\ is_some(backends[i].name))
             => unwrap(backends[i].name) \notin DOMAIN proxy_state

\* The position of the last backend of the registry named n.
LastDeclared(bs, n) ==
    CHOOSE i \in 1..Len(bs) :
        /\ bs[i].name = Some(n)
        /\ \A j \in (i + 1)..Len(bs) : bs[j].name # Some(n)

\* C18 (amended): after construction the routing state has an entry for
\* exactly the names of the registry; the entry of a name holds a cursor -1
\* when the last backend declared under the name is load balanced, and holds
\* no cursor (None) otherwise, as for every backend of kind single.
C18_EntryPerName ==
    /\ DOMAIN proxy_state =
          { unwrap(backends[i].name) :
              i \in { j \in 1..Len(backends) : is_some(backends[j].name) } }
    /\ \A n \in DOMAIN proxy_state :
          proxy_state[n] =
              IF IsLoadBalanced(backends[LastDeclared(backends, n)])
              THEN FreshCursor ELSE None

\* C18 witness: the state built from the registry of the tests has a cursor
\* -1 for test-lb.home and an entry without cursor for test.home.
C18_Witness ==
    /\ backends = ConfigTests
    /\ proxy_state["test-lb.home"] = FreshCursor
    /\ proxy_state["test.home"] = None

SupportedByGate == {"HTTP_10", "HTTP_11", "HTTP_2"}

\* C19 (as claimed): the host the handler extracts is undefined when the
\* request has neither a Host header nor a URI authority; it is taken from
\* the Host header when there is one, and from the URI authority only when
\* there is no Host header.
C19_HostExtraction ==
    \A e \in Ended :
        (e.handler /\ e.req.version \in SupportedByGate) =>
          /\ ("host" \notin DOMAIN e.req.headers /\ is_none(e.req.authority))
                => is_none(e.host)
          /\ "host" \in DOMAIN e.req.headers
                => e.host \in {None, Some(split_colon_next(e.req.headers["host"]))}
          /\ ("host" \notin DOMAIN e.req.headers /\ is_some(e.req.authority))
                => e.host \in {None, Some(split_colon_next(unwrap(e.req.authority)))}

\* The Host values that are localhost or an IP literal, with a port.
LiteralHostValues ==
    { <<"localhost", ":", "4000">>, <<"127.0.0.1", ":", "4000">>,
      <<"[", ":", ":", "1]", ":", "4000">> }

\* C20 (as claimed): for a request whose Host value is localhost or an IPv4
\* or IPv6 literal, with or without port, the host is undefined and the
\* router is not called.
C20_LiteralsNotIdentity ==
    \A e \in Ended :
        ( e.handler /\ e.req.version \in SupportedByGate
          /\ "host" \in DOMAIN e.req.headers
          /\ e.req.headers["host"] \in LiteralHostValues )
        => (is_none(e.host) /\ ~e.router)

\* The hop-by-hop header names, as header maps hold them (lower case).
HopByHopNames ==
    { "keep-alive", "transfer-encoding", "te", "connection", "trailer",
      "upgrade", "proxy-authorization", "proxy-authenticate" }

\* The ended exchanges whose request was handed to the upstream client.
Forwarded == { e \in Ended : is_some(e.upstream) }

\* C21: the request handed to the upstream client has none of the
\* hop-by-hop headers, whatever headers the inbound request carried.
C21_HopByHopStripped ==
    \A e \in Forwarded :
        DOMAIN unwrap(e.upstream).headers \cap HopByHopNames = {}

\* C21 witness: a request that carried all eight hop-by-hop headers was
\* forwarded.
C21_Witness ==
    \E e \in Forwarded : HopByHopNames \subseteq DOMAIN e.req.headers

\* The host value of the inbound request: the Host header when there is one,
\* the URI authority otherwise.
InboundHost(req) ==
    IF "host" \in DOMAIN req.headers THEN req.headers["host"]
    ELSE unwrap(req.authority)

\* C22: the Host header of the request handed to the upstream client is the
\* host identity of the inbound request, its host value up to the port (the
\* key the router was called with), whatever Host the client sent.
C22_HostRewritten ==
    \A e \in Forwarded :
        /\ e.host = Some(InboundHost(e.req)[1])
        /\ "host" \in DOMAIN unwrap(e.upstream).headers
        /\ unwrap(e.upstream).headers["host"] = << InboundHost(e.req)[1] >>

\* C22 witness: a request with Host test.home:4000 was forwarded with Host
\* test.home.
C22_Witness ==
    \E e \in Forwarded :
        /\ "host" \in DOMAIN e.req.headers
        /\ e.req.headers["host"] = <<"test.home", ":", "4000">>
        /\ unwrap(e.upstream).headers["host"] = <<"test.home">>

\* C23: the request handed to the upstream client has scheme http, the
\* location the router returned as authority, the path and the query string
\* of the inbound request, and version HTTP/1.1 whatever the inbound version.
C23_UpstreamUri ==
    \A e \in Forwarded :
        LET up == unwrap(e.upstream)
        IN  /\ up.scheme = "http"
            /\ up.authority = unwrap(e.response.extensions).backend_location
            /\ \E i \in FirstMatch(backends, unwrap(e.host)) :
                  up.authority \in Declared(backends[i])
            /\ up.path_and_query =
                  IF is_some(e.req.query)
                  THEN e.req.path \o "?" \o unwrap(e.req.query)
                  ELSE e.req.path
            /\ up.version = "HTTP_11"

\* C23 witness: an HTTP/2 request with a query string was forwarded.
C23_Witness ==
    \E e \in Forwarded :
        /\ e.req.version = "HTTP_2" /\ e.req.query = Some("a=1&b=2")
        /\ unwrap(e.upstream).path_and_query = "/test?a=1&b=2"

\* C24: the request handed to the upstream client has the method and the
\* body of the inbound request, and every header of the inbound request
\* other than the hop-by-hop ones, Host and x-no-proxy, with its value; it
\* has no header the inbound request had not, but Host and x-no-proxy.
C24_RewriteFrame ==
    \A e \in Forwarded :
        LET up == unwrap(e.upstream)
            touched == HopByHopNames \cup {"host", "x-no-proxy"}
        IN  /\ up.method = e.req.method
            /\ up.body = e.req.body
            /\ \A h \in DOMAIN e.req.headers \ touched :
                  h \in DOMAIN up.headers /\ up.headers[h] = e.req.headers[h]
            /\ DOMAIN up.headers \subseteq
                  (DOMAIN e.req.headers \ HopByHopNames) \cup {"host", "x-no-proxy"}

\* C24 witness: a POST with a body and a content-type header was forwarded.
C24_Witness ==
    \E e \in Forwarded :
        /\ e.req.method = "POST" /\ e.req.body = "payload"
        /\ "content-type" \in DOMAIN e.req.headers
        /\ unwrap(e.upstream).body = "payload"

\* C25: an invocation of the handler gives at most one request to the
\* upstream client: one when the router returned a location, none when it
\* returned None, was not called or the handler panicked; a call that failed
\* or timed out was made once.
C25_AtMostOneSend ==
    \A t \in Workers :
        /\ tasks[t].sends <= 1
        /\ tasks[t].pc = "await" => tasks[t].sends = 1
        /\ tasks[t].pc = "done" =>
             LET e == tasks[t].exchange
                 located ==
                     /\ e.router
                     /\ \E i \in FirstMatch(backends, unwrap(e.host)) :
                           Declared(backends[i]) # {}
             IN  /\ e.kind = "response" => (tasks[t].sends = 1 <=> located)
                 /\ e.kind = "response" => (tasks[t].sends = 1 <=> is_some(e.upstream))
                 /\ e.kind = "panic" => tasks[t].sends = 0
                 /\ e.outcome \in {"connect", "timeout", "other", "elapsed"}
                       => tasks[t].sends = 1

\* C25 witness: an upstream call that failed to connect has ended, after one
\* request to the downstream.
C25_Witness ==
    \E t \in Workers :
        /\ tasks[t].pc = "done" /\ tasks[t].exchange.outcome = "connect"
        /\ tasks[t].sends = 1

\* C26: a request handed to the upstream client is eventually answered to
\* the handler with a response, the downstream's or a synthesized one, also
\* when the downstream never answers: the deadline ends the wait.
C26_UpstreamReturns ==
    \A t \in Workers :
        (tasks[t].pc = "await")
            ~> ( tasks[t].pc = "done" /\ tasks[t].exchange.kind = "response"
                 /\ is_some(tasks[t].exchange.upstream) )

\* C26 witness: a call ended by the deadline, with a response.
C26_Witness ==
    \E t \in Workers :
        /\ tasks[t].pc = "done" /\ tasks[t].yielded.kind = "elapsed"
        /\ tasks[t].exchange.kind = "response"

\* C27: when the downstream answers before the deadline, the response of the
\* proxy has the status and the body of the downstream's, for GET, HEAD, POST
\* and PUT requests of HTTP/1.1 and HTTP/2.
C27_DownstreamRelayed ==
    \A t \in Workers :
        (tasks[t].pc = "done" /\ tasks[t].yielded.kind = "response") =>
            /\ tasks[t].exchange.kind = "response"
            /\ tasks[t].exchange.response.status = tasks[t].yielded.status
            /\ tasks[t].exchange.response.body = tasks[t].yielded.body

\* C27 witness: a 404 of the downstream was relayed to an HTTP/2 PUT.
C27_Witness ==
    \E t \in Workers :
        /\ tasks[t].pc = "done" /\ tasks[t].yielded.kind = "response"
        /\ tasks[t].yielded.status = 404
        /\ tasks[t].exchange.req.method = "PUT"
        /\ tasks[t].exchange.req.version = "HTTP_2"

C29_NoLockAcrossAwait ==
    /\ \A t \in Workers :
          tasks[t].pc \in {"idle", "lock", "await", "done"}
             => rr_lock.holder # Some(t)
    /\ ( (\E t \in Workers : tasks[t].pc = "await")
         /\ (\A u \in Workers : tasks[u].pc \notin {"read", "write"}) )
       => rr_lock.holder = None

\* C29 witness: a task routed for the load balanced backend holds the mutex
\* while the other task, routed for that backend before, awaits the upstream
\* client.
C29_Witness ==
    \E t, u \in Workers :
        /\ tasks[t].pc = "await" /\ tasks[t].host = "test-lb.home"
        /\ tasks[u].pc = "write" /\ rr_lock.holder = Some(u)

\* C30: the request handed to the upstream client has the header x-no-proxy
\* with value true, whether the inbound request had the header or not and
\* whatever its value was.
C30_NoProxyMarker ==
    \A e \in Forwarded :
        /\ "x-no-proxy" \in DOMAIN unwrap(e.upstream).headers
        /\ unwrap(e.upstream).headers["x-no-proxy"] = "true"

\* C30 witness: a request that came with x-no-proxy: false was forwarded.
C30_Witness ==
    \E e \in Forwarded :
        /\ "x-no-proxy" \in DOMAIN e.req.headers
        /\ e.req.headers["x-no-proxy"] = "false"

\* C31: the counter stored for a load balanced backend of N >= 1 locations is
\* an index of its locations, 0..N-1, in every state after the backend was
\* first routed to, and a call of round_robin_select that returns returns
\* the location at the counter value it has just stored.
C31_CursorInRange ==
    [][ /\ \A n \in Names :
             (Len(LbLocations(n)) >= 1 /\ n \in DOMAIN rr_map')
                => rr_map'[n] \in 0..(Len(LbLocations(n)) - 1)
        /\ \A t \in Workers :
             (tasks[t].pc = "write" /\ tasks'[t].pc = "await")
                => /\ tasks[t].backend_name \in DOMAIN rr_map'
                   /\ tasks'[t].location
                         = tasks[t].locs[rr_map'[tasks[t].backend_name] + 1] ]_vars

\* C31 witness: the backend of two locations was routed to three times; its
\* counter has been 0, 1 and is 0 again.
C31_Witness ==
    \E n \in Names :
        /\ Len(LbLocations(n)) = 2
        /\ Len(selected[n]) = 3
        /\ selected[n][2].index = 1
        /\ n \in DOMAIN rr_map /\ rr_map[n] = 0

\* C32: the counter of a backend is created or changed only by a call of
\* round_robin_select made for a request whose host is the name of that
\* backend; every other step (requests for other hosts, requests that end at
\* the version gate, at an internal endpoint or with the host-undefined 404)
\* leaves it as it is.
C32_CursorFrame ==
    [][ \A n \in DOMAIN rr_map \cup DOMAIN rr_map' :
          rr_get(rr_map', n) # rr_get(rr_map, n)
             => \E t \in Workers :
                   /\ tasks[t].pc = "write" /\ tasks'[t].pc # "write"
                   /\ tasks[t].backend_name = n
                   /\ tasks[t].host = n ]_vars

\* C32 witness: the counter of the load balanced backend is 1, a forwarded
\* request has been answered 503 and a request is answered by /status.
C32_Witness ==
    /\ "test-lb.home" \in DOMAIN rr_map /\ rr_map["test-lb.home"] = 1
    /\ \E l \in BagToSet(http_request_counter) : l[2] = L8000 /\ l[1] = "503"
    /\ \E e \in Ended : e.arm = "status"

\* C33: the counter and the histogram are updated together under the same
\* labels: for every pair (status, backend) the histogram has as many
\* observations as the counter counts, in every state, and no step lowers a
\* counter.
C33_MetricsInStep ==
    [][ /\ http_request_counter' = http_request_duration'
        /\ http_request_counter \sqsubseteq http_request_counter' ]_vars

\* C33 witness: two responses were recorded under the same labels.
C33_Witness ==
    /\ CopiesIn(<<"200", L8000>>, http_request_counter) = 2
    /\ CopiesIn(<<"200", L8000>>, http_request_duration) = 2

====
